---------------------------- MODULE Spec2Model ----------------------------
(***************************************************************************)
(* Model of InstallRequirements.py: the check of a requirements manifest   *)
(* against the installed distributions and the optimized / fallback        *)
(* installer orchestration.                                                *)
(*                                                                         *)
(* Strings are sequences of one-character strings, so that strip, lower,   *)
(* replace, startswith, split and the regular expression of the parser are *)
(* computed as Python computes them.                                       *)
(*                                                                         *)
(* Exceptions are raised by the operations on the environment              *)
(* (distributions(), open/read, NamedTemporaryFile/write, subprocess.run,  *)
(* os.remove) and, being unguarded, by the checking stage.  Console output *)
(* (print) is taken not to raise.                                          *)
(***************************************************************************)
EXTENDS Integers, Sequences, FiniteSets, TLC

VARIABLES
    \* ---- the environment of one run of install_requirements ----
    isfile,              \* os.path.isfile(requirements_path)
    fileReadable,        \* open()/iteration of the manifest does not raise
    manifest,            \* the lines of requirements.txt
    distsReadable,       \* distributions() enumeration does not raise
    dists,               \* the distributions the environment reports
    \* ---- the locals of install_requirements / install_packages ----
    pc,                  \* position in install_requirements
    installed_packages,  \* result of get_installed_packages
    required_packages,   \* result of parse_requirements
    packages_to_install, \* result of check_requirements_satisfied
    subsetComputed,      \* check_requirements_satisfied has returned
    temp_req_file,       \* install_packages: name of the temp file or None
    tempExists,          \* the temp file exists on disk
    tempCreated,         \* install_packages created a temp file in this run
    removeFailed,        \* os.remove raised in the finally clause
    success,             \* return value of install_packages
    returned,            \* install_packages has returned
    escaped,             \* an exception reached the handler of line 190
    calls,               \* installer invocations (subprocess.run), in order
    exitStatus,          \* process exit status
    uncaught,            \* an exception propagated out of install_requirements
    \* ---- inputs and results of the pure functions ----
    declared,            \* the name and version a generated line declares
    line,                \* argument of parse_requirement_line
    parsed,              \* its result: <<>> for None, <<entry>> otherwise
    package_info,        \* argument of is_package_satisfied
    inventory,           \* argument of is_package_satisfied
    satisfied,           \* its result
    fpc                  \* position of the pure-function specifications

runVars == <<isfile, fileReadable, manifest, distsReadable, dists, pc,
             installed_packages, required_packages, packages_to_install,
             subsetComputed, temp_req_file, tempExists, tempCreated,
             removeFailed, success, returned, escaped, calls, exitStatus, uncaught>>

fnVars == <<declared, line, parsed, package_info, inventory, satisfied, fpc>>

vars == <<runVars, fnVars>>

-----------------------------------------------------------------------------
(* Bounds *)

MaxNameLen == 4     \* length of the generated package names
MaxVerLen == 1      \* length of the generated version strings
MaxLines == 2       \* lines of a manifest
MaxDists == 1       \* distributions of an environment

-----------------------------------------------------------------------------
(* Characters and Python string methods *)

Lowercase == {"a", "b", "h", "p", "t"}
Uppercase == {"A", "B", "H", "P", "T"}
Digits == {"0", "1", "2"}
Whitespace == {" ", "\n"}

\* the character class [a-zA-Z0-9_-] of the regular expression
NameChar(c) == c \in Lowercase \cup Uppercase \cup Digits \cup {"_", "-"}

LowerChar(c) ==
    CASE c = "A" -> "a"
      [] c = "B" -> "b"
      [] c = "H" -> "h"
      [] c = "P" -> "p"
      [] c = "T" -> "t"
      [] OTHER -> c

\* str.lower()
Lower(s) == [i \in 1..Len(s) |-> LowerChar(s[i])]

\* str.replace('_', '-')
ReplaceUnderscore(s) == [i \in 1..Len(s) |-> IF s[i] = "_" THEN "-" ELSE s[i]]

SetMin(S) == CHOOSE x \in S : \A y \in S : x <= y
SetMax(S) == CHOOSE x \in S : \A y \in S : x >= y

\* str.strip()
Strip(s) ==
    LET keep == {i \in 1..Len(s) : s[i] \notin Whitespace}
    IN  IF keep = {} THEN <<>> ELSE SubSeq(s, SetMin(keep), SetMax(keep))

\* str.startswith(prefix)
StartsWith(s, prefix) ==
    /\ Len(s) >= Len(prefix)
    /\ SubSeq(s, 1, Len(prefix)) = prefix

\* line.split('[')[0] if '[' in line else line
BeforeBracket(s) ==
    LET at == {i \in 1..Len(s) : s[i] = "["}
    IN  IF at = {} THEN s ELSE SubSeq(s, 1, SetMin(at) - 1)

\* str.replace('==', ''): every non-overlapping occurrence, left to right
RECURSIVE RemoveEqEq(_)
RemoveEqEq(s) ==
    IF s = <<>> THEN <<>>
    ELSE IF StartsWith(s, <<"=", "=">>) THEN RemoveEqEq(SubSeq(s, 3, Len(s)))
    ELSE <<s[1]>> \o RemoveEqEq(Tail(s))

\* length of the match of group 1 of ^([a-zA-Z0-9_-]+)(.*): the longest
\* prefix of name characters (the quantifier is greedy, and the rest always
\* matches .* as a stripped line holds no newline)
NameMatchLen(s) ==
    LET stop == {i \in 1..Len(s) : ~NameChar(s[i])}
    IN  IF stop = {} THEN Len(s) ELSE SetMin(stop) - 1

\* all sequences over S of length lo..hi
SeqsOf(S, lo, hi) == UNION {[1..n -> S] : n \in lo..hi}

-----------------------------------------------------------------------------
(* parse_requirement_line, parse_requirements *)

Entry(name, spec, version_spec) ==
    [name |-> name, spec |-> spec, version_spec |-> version_spec]

\* the test of line 20: empty line, comment or URL
Skipped(stripped) ==
    \/ stripped = <<>>
    \/ StartsWith(stripped, <<"#">>)
    \/ StartsWith(stripped, <<"h", "t", "t", "p">>)

\* <<>> models None, <<entry>> a returned dict
parse_requirement_line(ln) ==
    LET stripped == Strip(ln)
        package_part == BeforeBracket(stripped)
        n == NameMatchLen(package_part)
    IN  IF Skipped(stripped) THEN <<>>
        ELSE IF n = 0 THEN <<>>
        ELSE << Entry(ReplaceUnderscore(Lower(SubSeq(package_part, 1, n))),
                      stripped,
                      Strip(SubSeq(package_part, n + 1, Len(package_part)))) >>

RECURSIVE ParseLines(_)
ParseLines(lines) ==
    IF lines = <<>> THEN <<>>
    ELSE parse_requirement_line(Head(lines)) \o ParseLines(Tail(lines))

\* a failure to open or read the file yields the empty list (lines 47-49)
parse_requirements(readable, lines) ==
    IF readable THEN ParseLines(lines) ELSE <<>>

-----------------------------------------------------------------------------
(* get_installed_packages *)

Dist(Name, version) == [Name |-> Name, version |-> version]

\* {dist.metadata['Name'].lower(): dist.version for dist in distributions()};
\* a later distribution of the same key overwrites an earlier one, and a
\* failure of the enumeration yields the empty dict (lines 11-13)
get_installed_packages(readable, ds) ==
    IF ~readable THEN <<>>
    ELSE LET keys == {Lower(ds[i].Name) : i \in 1..Len(ds)}
             last(k) == SetMax({i \in 1..Len(ds) : Lower(ds[i].Name) = k})
         IN  [k \in keys |-> ds[last(k)].version]

-----------------------------------------------------------------------------
(* is_package_satisfied, check_requirements_satisfied *)

\* a plausible slip: every version specifier of an installed package is
\* taken as satisfied
is_package_satisfied_AnySpec(info, installed) ==
    info.name \in DOMAIN installed

is_package_satisfied(info, installed) ==
    IF info.name \notin DOMAIN installed THEN FALSE
    ELSE IF info.version_spec = <<>> \/ StartsWith(info.version_spec, <<"[">>)
         THEN TRUE
    ELSE IF StartsWith(info.version_spec, <<"=", "=">>)
         THEN installed[info.name] = Strip(RemoveEqEq(info.version_spec))
    ELSE FALSE

RECURSIVE check_requirements_satisfied(_, _)
check_requirements_satisfied(required, installed) ==
    IF required = <<>> THEN <<>>
    ELSE (IF is_package_satisfied(Head(required), installed)
          THEN <<>> ELSE <<Head(required).spec>>)
         \o check_requirements_satisfied(Tail(required), installed)

-----------------------------------------------------------------------------
(* The installer (subprocess.run) and the temporary file *)

None == "None"
RequirementsPath == "requirements.txt"
TempNames == {"tmp_a.txt", "tmp_b.txt"}

\* exit statuses of the installer
ReturnCodes == {0, 1, 2}

\* what a subprocess.run call does: it returns a status or raises
RunOutcomes ==
    {[raised |-> FALSE, returncode |-> r] : r \in ReturnCodes}
        \cup {[raised |-> TRUE, returncode |-> -1]}

\* one installer invocation: the function that made it, its flags, its
\* -r argument and what it did
Call(fn, quiet, target, out) ==
    [fn |-> fn, quiet |-> quiet, target |-> target,
     raised |-> out.raised, returncode |-> out.returncode]

\* a plausible slip: no clean-up of the temporary file
Cleanup_Skip(file, exists, removeOk) == exists

\* the finally clause of install_packages (lines 127-133): the file exists
\* afterwards only if it existed and os.remove raised (swallowed by the
\* bare except)
Cleanup(file, exists, removeOk) ==
    IF file # None /\ exists THEN ~removeOk ELSE exists

\* a plausible slip: the retry's status is ignored
RetryResult_Ignore(returncode) == TRUE

\* line 122: return result.returncode == 0
RetryResult(returncode) == returncode = 0

-----------------------------------------------------------------------------
(* The branches of install_requirements *)

\* a plausible slip: an empty subset is handed to the full reinstall
AfterCheck_Reinstall(subset) == IF subset = <<>> THEN "fallback" ELSE "install"

\* lines 173-178
AfterCheck(subset) == IF subset = <<>> THEN "done" ELSE "install"

\* a plausible slip: the failure of the optimized install ends the run
AfterInstall_NoFallback(ok) == "done"

\* lines 180-184
AfterInstall(ok) == IF ok THEN "done" ELSE "fallback"

\* a plausible slip: the exit status of a failed fallback is lost
FallbackExit_Zero(ok) == 0

\* lines 184-188 and 193-197: sys.exit(1) after a failed fallback
FallbackExit(ok) == IF ok THEN 0 ELSE 1

-----------------------------------------------------------------------------
(* The environments of a run *)

\* ab==1, A_b, ab>=1, a comment and a blank line, as read from the file
ManifestLines ==
    { <<"a", "b", "=", "=", "1", "\n">>,
      <<"A", "_", "b", "\n">>,
      <<"a", "b", ">", "=", "1", "\n">>,
      <<"#", " ", "a", "\n">>,
      <<"\n">> }

\* the distributions an environment may report
InstalledDists ==
    { Dist(<<"A", "b">>, <<"1">>),
      Dist(<<"a", "b">>, <<"2">>),
      Dist(<<"a", "_", "b">>, <<"1">>) }

NoEntry == Entry(<<>>, <<>>, <<>>)

FnIdle ==
    /\ declared = [name |-> <<>>, version |-> <<>>]
    /\ line = <<>>
    /\ parsed = <<>>
    /\ package_info = NoEntry
    /\ inventory = <<>>
    /\ satisfied = FALSE
    /\ fpc = "idle"

\* the locals before install_requirements has run
RunLocalsInit ==
    /\ installed_packages = <<>>
    /\ required_packages = <<>>
    /\ packages_to_install = <<>>
    /\ subsetComputed = FALSE
    /\ temp_req_file = None
    /\ tempExists = FALSE
    /\ tempCreated = FALSE
    /\ removeFailed = FALSE
    /\ success = FALSE
    /\ returned = FALSE
    /\ escaped = FALSE
    /\ calls = <<>>
    /\ exitStatus = 0
    /\ uncaught = FALSE

Init ==
    /\ isfile \in BOOLEAN
    /\ fileReadable \in (IF isfile THEN BOOLEAN ELSE {FALSE})
    /\ manifest \in (IF isfile THEN SeqsOf(ManifestLines, 0, MaxLines) ELSE {<<>>})
    /\ distsReadable \in BOOLEAN
    /\ dists \in SeqsOf(InstalledDists, 0, MaxDists)
    /\ pc = "start"
    /\ RunLocalsInit
    /\ FnIdle

envVars == <<isfile, fileReadable, manifest, distsReadable, dists>>
tempVars == <<temp_req_file, tempExists, tempCreated, removeFailed>>

-----------------------------------------------------------------------------
(* install_requirements, step by step *)

\* lines 152-154: no manifest, nothing to do
CheckManifestExists ==
    /\ pc = "start"
    /\ pc' = IF isfile THEN "inventory" ELSE "done"
    /\ UNCHANGED <<envVars, installed_packages, required_packages,
                   packages_to_install, subsetComputed, tempVars, success,
                   returned, escaped, calls, exitStatus, uncaught, fnVars>>

\* line 161
ReadInventory ==
    /\ pc = "inventory"
    /\ installed_packages' = get_installed_packages(distsReadable, dists)
    /\ pc' = "parse"
    /\ UNCHANGED <<envVars, required_packages, packages_to_install,
                   subsetComputed, tempVars, success, returned, escaped, calls,
                   exitStatus, uncaught, fnVars>>

\* lines 164-168
ParseManifest ==
    /\ pc = "parse"
    /\ required_packages' = parse_requirements(fileReadable, manifest)
    /\ pc' = IF required_packages' = <<>> THEN "done" ELSE "check"
    /\ UNCHANGED <<envVars, installed_packages, packages_to_install,
                   subsetComputed, tempVars, success, returned, escaped, calls,
                   exitStatus, uncaught, fnVars>>

\* lines 171-175
CheckRequirements ==
    /\ pc = "check"
    /\ packages_to_install' =
           check_requirements_satisfied(required_packages, installed_packages)
    /\ subsetComputed' = TRUE
    /\ pc' = AfterCheck(packages_to_install')
    /\ UNCHANGED <<envVars, installed_packages, required_packages, tempVars,
                   success, returned, escaped, calls, exitStatus, uncaught,
                   fnVars>>

\* line 171 raises: the stage has no handler of its own, the exception
\* reaches the handler of line 190
CheckRaises ==
    /\ pc = "check"
    /\ escaped' = TRUE
    /\ pc' = "handler"
    /\ UNCHANGED <<envVars, installed_packages, required_packages,
                   packages_to_install, subsetComputed, tempVars, success,
                   returned, calls, exitStatus, uncaught, fnVars>>

\* install_packages returns ok, through its finally clause
ReturnFromInstall(ok, file, exists, removeOk) ==
    /\ success' = ok
    /\ returned' = TRUE
    /\ tempExists' = Cleanup(file, exists, removeOk)
    /\ removeFailed' = (file # None /\ exists /\ ~removeOk)
    /\ pc' = "returned"

\* lines 88-99: the temporary file is created and written
WriteTempFile ==
    /\ pc = "install"
    /\ IF packages_to_install = <<>>
       THEN /\ success' = TRUE
            /\ returned' = TRUE
            /\ pc' = "returned"
            /\ UNCHANGED tempVars
       ELSE \E f \in TempNames, removeOk \in BOOLEAN :
              \/ \* NamedTemporaryFile raises: no file, temp_req_file is None
                 /\ UNCHANGED <<temp_req_file, tempCreated>>
                 /\ ReturnFromInstall(FALSE, None, FALSE, removeOk)
              \/ \* f.write raises: the file exists and is named
                 /\ temp_req_file' = f
                 /\ tempCreated' = TRUE
                 /\ ReturnFromInstall(FALSE, f, TRUE, removeOk)
              \/ /\ temp_req_file' = f
                 /\ tempCreated' = TRUE
                 /\ tempExists' = TRUE
                 /\ pc' = "quiet"
                 /\ UNCHANGED <<success, returned, removeFailed>>
    /\ UNCHANGED <<envVars, installed_packages, required_packages,
                   packages_to_install, subsetComputed, escaped, calls,
                   exitStatus, uncaught, fnVars>>

\* lines 101-113: the quiet installer call
QuietInstall ==
    /\ pc = "quiet"
    /\ \E out \in RunOutcomes, removeOk \in BOOLEAN :
         /\ calls' = Append(calls,
                Call("install_packages", TRUE, temp_req_file, out))
         /\ IF out.raised
            THEN ReturnFromInstall(FALSE, temp_req_file, tempExists, removeOk)
            ELSE IF out.returncode = 0
            THEN ReturnFromInstall(TRUE, temp_req_file, tempExists, removeOk)
            ELSE /\ pc' = "verbose"
                 /\ UNCHANGED <<success, returned, tempExists, removeFailed>>
    /\ UNCHANGED <<envVars, installed_packages, required_packages,
                   packages_to_install, subsetComputed, temp_req_file,
                   tempCreated, escaped, exitStatus, uncaught, fnVars>>

\* lines 114-122: the retry without the quiet flag
VerboseRetry ==
    /\ pc = "verbose"
    /\ \E out \in RunOutcomes, removeOk \in BOOLEAN :
         /\ calls' = Append(calls,
                Call("install_packages", FALSE, temp_req_file, out))
         /\ IF out.raised
            THEN ReturnFromInstall(FALSE, temp_req_file, tempExists, removeOk)
            ELSE ReturnFromInstall(RetryResult(out.returncode), temp_req_file,
                                   tempExists, removeOk)
    /\ UNCHANGED <<envVars, installed_packages, required_packages,
                   packages_to_install, subsetComputed, temp_req_file,
                   tempCreated, escaped, exitStatus, uncaught, fnVars>>

\* lines 180-183
BranchOnSuccess ==
    /\ pc = "returned"
    /\ pc' = AfterInstall(success)
    /\ UNCHANGED <<envVars, installed_packages, required_packages,
                   packages_to_install, subsetComputed, tempVars, success,
                   returned, escaped, calls, exitStatus, uncaught, fnVars>>

\* lines 184-188: the fallback inside the try block; an exception of its
\* subprocess.run is caught by the handler of line 190, sys.exit(1) raises
\* SystemExit, which that handler does not catch
FallbackInTry ==
    /\ pc = "fallback"
    /\ \E out \in RunOutcomes :
         /\ calls' = Append(calls,
                Call("install_requirements_fallback", FALSE, RequirementsPath, out))
         /\ IF out.raised
            THEN /\ escaped' = TRUE
                 /\ pc' = "handler"
                 /\ UNCHANGED exitStatus
            ELSE /\ exitStatus' = FallbackExit(out.returncode = 0)
                 /\ pc' = "done"
                 /\ UNCHANGED escaped
    /\ UNCHANGED <<envVars, installed_packages, required_packages,
                   packages_to_install, subsetComputed, tempVars, success,
                   returned, uncaught, fnVars>>

\* lines 190-197: the handler's fallback; an exception of its
\* subprocess.run propagates out of install_requirements, and the
\* interpreter ends with status 1
FallbackInHandler ==
    /\ pc = "handler"
    /\ \E out \in RunOutcomes :
         /\ calls' = Append(calls,
                Call("install_requirements_fallback", FALSE, RequirementsPath, out))
         /\ IF out.raised
            THEN /\ uncaught' = TRUE
                 /\ exitStatus' = 1
            ELSE /\ exitStatus' = FallbackExit(out.returncode = 0)
                 /\ UNCHANGED uncaught
         /\ pc' = "done"
    /\ UNCHANGED <<envVars, installed_packages, required_packages,
                   packages_to_install, subsetComputed, tempVars, success,
                   returned, escaped, fnVars>>

Next ==
    \/ CheckManifestExists
    \/ ReadInventory
    \/ ParseManifest
    \/ CheckRequirements
    \/ CheckRaises
    \/ WriteTempFile
    \/ QuietInstall
    \/ VerboseRetry
    \/ BranchOnSuccess
    \/ FallbackInTry
    \/ FallbackInHandler

Spec == Init /\ [][Next]_vars

-----------------------------------------------------------------------------
(* parse_requirement_line applied to generated name==version lines *)

NameAlphabet == {"h", "t", "p", "A", "_"}
VersionChars == {"1", "2", "."}

DeclaredNames == SeqsOf(NameAlphabet, 1, MaxNameLen)
Versions == SeqsOf(VersionChars, 1, MaxVerLen)

\* install_requirements is not running
RunIdle ==
    /\ isfile = FALSE
    /\ fileReadable = FALSE
    /\ manifest = <<>>
    /\ distsReadable = FALSE
    /\ dists = <<>>
    /\ pc = "idle"
    /\ RunLocalsInit

\* name==version, as a line of the file: with or without indentation and
\* line end
InitParse ==
    /\ RunIdle
    /\ declared \in [name : DeclaredNames, version : Versions]
    /\ \E lead \in {<<>>, <<" ">>}, trail \in {<<>>, <<"\n">>} :
         line = lead \o declared.name \o <<"=", "=">> \o declared.version \o trail
    /\ parsed = <<>>
    /\ package_info = NoEntry
    /\ inventory = <<>>
    /\ satisfied = FALSE
    /\ fpc = "parse"

ParseLine ==
    /\ fpc = "parse"
    /\ parsed' = parse_requirement_line(line)
    /\ fpc' = "parsed"
    /\ UNCHANGED <<runVars, declared, line, package_info, inventory, satisfied>>

NextParse == ParseLine

SpecParse == InitParse /\ [][NextParse]_vars

-----------------------------------------------------------------------------
(* is_package_satisfied applied to generated entries and inventories *)

SatNames == { <<"a">>, <<"a", "-", "b">> }

Operators ==
    { <<"=", "=">>, <<"=", "=", "=">>, <<">", "=">>, <<"<", "=">>,
      <<"~", "=">>, <<"!", "=">>, <<">">>, <<"<">> }

\* no specifier, an extras remnant, or an operator and a version with or
\* without a blank between them
VersionSpecs ==
    {<<>>}
      \cup {<<"[">> \o v : v \in Versions}
      \cup {op \o sp \o v : op \in Operators, sp \in {<<>>, <<" ">>}, v \in Versions}

Inventories == UNION {[S -> Versions] : S \in SUBSET SatNames}

InitSat ==
    /\ RunIdle
    /\ declared = [name |-> <<>>, version |-> <<>>]
    /\ line = <<>>
    /\ parsed = <<>>
    /\ \E n \in SatNames, vs \in VersionSpecs :
         package_info = Entry(n, n \o vs, vs)
    /\ inventory \in Inventories
    /\ satisfied = FALSE
    /\ fpc = "decide"

Decide ==
    /\ fpc = "decide"
    /\ satisfied' = is_package_satisfied(package_info, inventory)
    /\ fpc' = "decided"
    /\ UNCHANGED <<runVars, declared, line, parsed, package_info, inventory>>

NextSat == Decide

SpecSat == InitSat /\ [][NextSat]_vars

-----------------------------------------------------------------------------
(* Properties *)

Done == pc = "done"

FallbackCalls ==
    {i \in DOMAIN calls : calls[i].fn = "install_requirements_fallback"}

\* the installer invocations made by install_packages, in order
InstallCalls == SelectSeq(calls, LAMBDA c : c.fn = "install_packages")

CallSucceeded(c) == ~c.raised /\ c.returncode = 0

\* the optimized path failed: install_packages reported failure, or an
\* exception escaped to the handler of install_requirements
OptimizedFailed == (returned /\ ~success) \/ escaped

\* the fallback install was made and its last invocation did not succeed
FallbackFailed ==
    /\ FallbackCalls # {}
    /\ ~CallSucceeded(calls[Len(calls)])

\* C1: the fallback install is invoked in exactly the runs in which the
\* optimized install reported failure or an exception escaped the
\* optimized path, and every fallback invocation runs the installer on the
\* original manifest file, without the quiet flag
C1_FallbackIffOptimizedFailed ==
    /\ FallbackCalls # {} => OptimizedFailed
    /\ Done /\ OptimizedFailed => FallbackCalls # {}
    /\ \A i \in FallbackCalls :
         calls[i].target = RequirementsPath /\ ~calls[i].quiet

C1_Witness ==
    /\ Done
    /\ returned /\ ~success
    /\ Len(InstallCalls) = 2
    /\ FallbackCalls = {3}

\* C2: a finished run has exit status 0 in the success and no-op cases
\* (manifest absent, no entries, nothing unsatisfied, optimized install
\* succeeded, fallback succeeded) and status 1 exactly when the optimized
\* path and the fallback install both failed
C2_ExitStatus ==
    Done =>
      /\ exitStatus \in {0, 1}
      /\ exitStatus # 0 <=> (OptimizedFailed /\ FallbackFailed)
      /\ ~isfile => exitStatus = 0
      /\ (~escaped /\ ~subsetComputed) => exitStatus = 0
      /\ (subsetComputed /\ packages_to_install = <<>>) => exitStatus = 0
      /\ (returned /\ success) => exitStatus = 0
      /\ (FallbackCalls # {} /\ CallSucceeded(calls[Len(calls)])) => exitStatus = 0

C2_Witness ==
    /\ Done
    /\ exitStatus = 1
    /\ ~uncaught
    /\ returned /\ ~success
    /\ FallbackFailed

\* C3 (as stated): once install_packages has returned, the temporary file
\* it created does not exist
C3_TempFileRemoved == returned => ~tempExists

\* C3 (amended): once install_packages has returned, the temporary file it
\* created exists only if os.remove raised in the finally clause; while
\* install_packages runs, the file it created is still there
C3_TempFileRemovedUnlessRemoveFails ==
    /\ returned => (tempExists <=> removeFailed)
    /\ removeFailed => tempCreated
    /\ tempExists => tempCreated /\ temp_req_file \in TempNames

C3_Witness ==
    /\ returned
    /\ tempCreated
    /\ ~tempExists
    /\ Len(InstallCalls) = 2

\* C4: with the manifest absent, or with an empty unsatisfied subset, the
\* run makes no installer invocation and ends with status 0
C4_NoInstallerCall ==
    /\ ~isfile => calls = <<>> /\ exitStatus = 0 /\ pc \in {"start", "done"}
    /\ (subsetComputed /\ packages_to_install = <<>>) =>
          calls = <<>> /\ exitStatus = 0 /\ Done

C4_Witness ==
    /\ Done
    /\ isfile
    /\ required_packages # <<>>
    /\ subsetComputed
    /\ packages_to_install = <<>>

\* C5: the first invocation of install_packages is quiet; if it exits
\* nonzero there is exactly one more invocation, without the quiet flag and
\* on the same temporary file, and the result is whether that one exited 0;
\* if it exits 0 there is no other invocation and the result is success
C5_RetryOnce ==
    LET ic == InstallCalls IN
    /\ Len(ic) <= 2
    /\ Len(ic) >= 1 => ic[1].quiet /\ ic[1].target = temp_req_file
    /\ Len(ic) = 2 => ~ic[1].raised /\ ic[1].returncode # 0
    /\ returned /\ Len(ic) >= 1 /\ ~ic[1].raised /\ ic[1].returncode # 0 =>
          /\ Len(ic) = 2
          /\ ~ic[2].quiet
          /\ ic[2].target = ic[1].target
          /\ success <=> CallSucceeded(ic[2])
    /\ returned /\ Len(ic) >= 1 /\ CallSucceeded(ic[1]) =>
          Len(ic) = 1 /\ success

C5_Witness ==
    /\ returned
    /\ Len(InstallCalls) = 2
    /\ CallSucceeded(InstallCalls[2])
    /\ success

\* the text that follows a leading ==, trimmed
RequiredVersion(version_spec) ==
    Strip(SubSeq(version_spec, 3, Len(version_spec)))

\* C6: is_package_satisfied is false for a name that is no inventory key;
\* otherwise true for an empty specifier or one that starts with [;
\* otherwise, for a specifier that begins with ==, true exactly when the
\* installed version equals the required version; otherwise false
C6_SatisfiedDecision ==
    fpc = "decided" =>
      LET vs == package_info.version_spec
          expected ==
            IF package_info.name \notin DOMAIN inventory THEN FALSE
            ELSE IF vs = <<>> THEN TRUE
            ELSE IF vs[1] = "[" THEN TRUE
            ELSE IF Len(vs) >= 2 /\ vs[1] = "=" /\ vs[2] = "="
                 THEN inventory[package_info.name] = RequiredVersion(vs)
            ELSE FALSE
      IN  satisfied = expected

C6_Witness ==
    /\ fpc = "decided"
    /\ package_info.version_spec = <<"=", "=", "1">>
    /\ package_info.name \in DOMAIN inventory
    /\ inventory[package_info.name] = <<"1">>
    /\ satisfied

\* C7: a line name==version is parsed to one entry, whose name is the
\* declared name in lowercase with hyphens for underscores and whose
\* version specifier is == followed by the declared version
C7_ValidLineParsed ==
    fpc = "parsed" =>
      /\ Len(parsed) = 1
      /\ parsed[1].name = ReplaceUnderscore(Lower(declared.name))
      /\ parsed[1].version_spec = <<"=", "=">> \o declared.version

\* lowercase, hyphens for underscores
Normalized(name) == ReplaceUnderscore(Lower(name))

\* C8: the names of the parsed entries are normalized, and the inventory
\* keys carry the same normalization: an entry that names a distribution
\* the environment reports, in whatever casing or underscore/hyphen form,
\* is found in the inventory
C8_ConsistentLookup ==
    /\ \A i \in DOMAIN required_packages :
         required_packages[i].name = Normalized(required_packages[i].name)
    /\ (pc \notin {"start", "inventory"} /\ isfile /\ distsReadable) =>
          /\ \A k \in DOMAIN installed_packages : k = Normalized(k)
          /\ \A i \in DOMAIN required_packages, j \in DOMAIN dists :
               Normalized(dists[j].Name) = required_packages[i].name
                  => required_packages[i].name \in DOMAIN installed_packages

\* C9: no exception propagates out of install_requirements
C9_NoUncaughtException == ~uncaught

\* C10: at most three installer invocations in a run, in the order quiet
\* call, verbose retry, fallback call, and at most one fallback call
C10_AtMostThreeCallsInOrder ==
    /\ Len(calls) <= 3
    /\ Cardinality(FallbackCalls) <= 1
    /\ \A i \in FallbackCalls : i = Len(calls)
    /\ Len(InstallCalls) <= 2
    /\ Len(InstallCalls) = 2 => InstallCalls[1].quiet /\ ~InstallCalls[2].quiet

=============================================================================
